---- MODULE Spec2Model ----
(***************************************************************************)
(* Model of the patent search service: the DataManager cache               *)
(* (src/src/patent_search/data_manager/data_manager.py) under concurrent   *)
(* callers, and the multi-keyword search of PatentSearchService            *)
(* (src/src/patent_search/service/patent_service.py) over the TextIndexer  *)
(* (src/text_challenge/core/indexer.py).                                   *)
(***************************************************************************)
EXTENDS Integers, Sequences, FiniteSets, TLC

(***************************************************************************)
(* Bounds of the model.                                                    *)
(***************************************************************************)
\* number of threads that each call append_to_cache once
NumAppenders == 2
\* longest list of records handed to one append_to_cache call
MaxAppendLen == 1
\* number of lines of the raw source file
NumRawLines == 2
\* number of different texts that can be added to the index
NumTexts == 5
\* largest number of points in the index
MaxIndexSize == 2
\* number of different keyword strings
NumKeywords == 2
\* longest keyword list of a request
MaxKeywords == 2
\* largest max_results of a request
MaxResults == 2
\* TextProcessor.min_text_length, scaled down with the texts
min_text_length == 2
\* the longest raw text
MaxTextLen == 3
\* the longest batch handed to batch_process, and the largest batch_size
MaxBatch == 2

Appenders == 1 .. NumAppenders
\* threading.Lock() as constructed: held by no thread
NoThread == 0

\* the records the cache file holds when it already exists at start-up
InitialRecords == <<901>>
\* the records of a cache file written while another embedding model was
\* configured
StaleRecords == <<902>>
\* the record that processing raw line i yields
RawRecord(i) == 500 + i
\* content.split("\n"): raw line i of the source file; the file ends with
\* a newline, so the last element of the split is the empty string
RawLine(i) ==
    IF i = NumRawLines THEN <<>>
    ELSE <<"a", "!">> \o [j \in 1 .. i |-> "a"]
\* the raw lines of the source file, in order
RawLines == [i \in 1 .. NumRawLines |-> RawLine(i)]
\* ProcessedText(text=text, ...): the text of the record of raw line i is
\* the line as read
RecordText(rec) == RawLine(rec - 500)
\* the list handed to append_to_cache by thread t: n records of its own
NewRecords(t, n) == [i \in 1 .. n |-> 100 * t + i]

\* TextIndexer.dimension, the vector size of the collection
dimension == 384
\* the embedding size of the other model the configuration names
OtherEmbeddingSize == 768
\* len(rec.embedding): the size of the model that encoded the record
EmbeddingLength(rec) ==
    IF \E i \in 1 .. Len(StaleRecords) : StaleRecords[i] = rec
      THEN OtherEmbeddingSize
      ELSE dimension

VARIABLES
    use_cache,        \* ProcessingConfig.use_cache
    force_reprocess,  \* ProcessingConfig.force_reprocess
    cacheFile,        \* the file at config.cache_path: status and pickled list
    cache0,           \* the list the cache held at start-up (<<>> if absent)
    cache_lock,       \* DataManager._cache_lock: the holder, or NoThread
    pc,               \* position of each append_to_cache caller
    new_texts,        \* append_to_cache: new_processed_texts of each caller
    updated_texts,    \* append_to_cache: updated_texts of each caller
    observed,         \* what the last _load_from_cache of each caller read
    error,            \* the exception an append_to_cache call propagated
    lpc,              \* position of the load_or_process_data caller
    lobserved,        \* what _load_from_cache read in load_or_process_data
    lprocessed,       \* _process_and_cache_data: processed_texts
    lresult,          \* the list load_or_process_data returned
    lerror,           \* the exception load_or_process_data propagated
    index,            \* the points of the indexer's collection, in id order
    request,          \* the SearchRequest being served, or NoRequest
    keyword_results,  \* search: keyword_results, in dict order
    final_results,    \* _merge_keyword_results: final_results after the sort
    response,         \* SearchResponse.results
    args,             \* the arguments SearchRequest was last constructed with
    outcome,          \* how the call being served ended, or "none"
    store_down,       \* the keywords whose vector-store query raises
    embed_down,       \* the keywords whose embedding raises
    store_slow,       \* the keywords whose vector-store query never completes
    pending,          \* search: the keywords of the request not yet queried
    raw_texts,        \* the raw texts handed to the TextProcessor
    call,             \* the TextProcessor call made, its input and its output
    metadata,         \* len(TextIndexer.metadata): every key is a fresh uuid4
    snapshot,         \* the directory of save_index: state.json, vectors.json
    loaded,           \* the TextIndexer constructed with load_from
    submission,       \* the patents posted to /patents/add, ntotal before
    added             \* what add_patents answered, or NotAdded

cacheVars == <<use_cache, force_reprocess, cacheFile, cache0, cache_lock, pc,
               new_texts, updated_texts, observed, error,
               lpc, lobserved, lprocessed, lresult, lerror>>
appendVars == <<pc, new_texts, updated_texts, observed, error>>
loaderVars == <<lpc, lobserved, lprocessed, lresult, lerror>>
configVars == <<use_cache, force_reprocess, cache0>>

procVars == <<raw_texts, call>>
indexVars == <<metadata, snapshot, loaded>>
addVars == <<submission, added>>
otherVars == <<procVars, indexVars, addVars>>

searchVars == <<index, request, keyword_results, final_results, response,
                args, outcome, store_down, embed_down, store_slow, pending,
                otherVars>>
faultVars == <<store_down, embed_down, store_slow>>
searchVarsButOthers == <<index, request, keyword_results, final_results,
                         response, args, outcome, pending, faultVars>>

vars == <<cacheVars, searchVars>>

(***************************************************************************)
(* The cache file.  status is "absent" (no file), "ok" (a complete pickle  *)
(* of data), "torn" (opened with mode "wb", hence truncated, and the dump  *)
(* not finished) or "corrupt" (left truncated by a dump that failed).      *)
(***************************************************************************)
AbsentFile == [status |-> "absent", data |-> <<>>]
OkFile(d) == [status |-> "ok", data |-> d]
TornFile == [status |-> "torn", data |-> <<>>]
CorruptFile == [status |-> "corrupt", data |-> <<>>]

\* cache_path.exists()
CacheExists == cacheFile.status # "absent"

\* ProcessingConfig.should_use_cache
should_use_cache == use_cache /\ ~force_reprocess /\ CacheExists

\* pickle.load of the file as it is now: TRUE when it yields the list
Loadable == cacheFile.status = "ok"

\* _load_from_cache: the list read (None is modelled as <<>> with "absent")
LoadedTexts == IF Loadable THEN cacheFile.data ELSE <<>>

\* the elements of a sequence
Range(s) == {s[i] : i \in 1 .. Len(s)}

\* the subsequence of the raw lines that processing did not skip
RECURSIVE ProcessLines(_, _)
ProcessLines(i, okLines) ==
    IF i > NumRawLines THEN <<>>
    ELSE (IF i \in okLines THEN <<RawRecord(i)>> ELSE <<>>)
         \o ProcessLines(i + 1, okLines)

\* DataManager as constructed, over a cache file that exists or not
CacheStart ==
    /\ use_cache \in BOOLEAN
    /\ force_reprocess \in BOOLEAN
    /\ cacheFile \in {AbsentFile, OkFile(InitialRecords), OkFile(StaleRecords)}
    /\ cache0 = cacheFile.data
    /\ cache_lock = NoThread
    /\ pc = [t \in Appenders |-> "idle"]
    /\ new_texts = [t \in Appenders |-> <<>>]
    /\ updated_texts = [t \in Appenders |-> <<>>]
    /\ observed = [t \in Appenders |-> "none"]
    /\ error = [t \in Appenders |-> "none"]
    /\ lpc = "idle"
    /\ lobserved = "none"
    /\ lprocessed = <<>>
    /\ lresult = <<>>
    /\ lerror = "none"

(***************************************************************************)
(* append_to_cache, one action per interleaving point.                     *)
(***************************************************************************)
\* the call: returns at once when use_cache is false
AppendCall(t) ==
    /\ pc[t] = "idle"
    /\ \E n \in 0 .. MaxAppendLen :
         new_texts' = [new_texts EXCEPT ![t] = NewRecords(t, n)]
    /\ pc' = [pc EXCEPT ![t] = IF use_cache THEN "acquire" ELSE "returned"]
    /\ UNCHANGED <<searchVars, configVars, cacheFile, cache_lock, updated_texts,
                   observed, error, loaderVars>>

\* a lock that lets every caller in
LockNeverHeld == TRUE

\* threading.Lock.acquire goes through only while nobody holds the lock
LockFree == cache_lock = NoThread

\* with self._cache_lock: entry
AppendAcquire(t) ==
    /\ pc[t] = "acquire"
    /\ LockFree
    /\ cache_lock' = t
    /\ pc' = [pc EXCEPT ![t] = "load"]
    /\ UNCHANGED <<searchVars, configVars, cacheFile, new_texts, updated_texts,
                   observed, error, loaderVars>>

\* the lock when an exception leaves the with block of append_to_cache
LockKeptOnRaise(t) == t

LockAfterRaise(t) == NoThread

\* a failed load taken for an empty cache
AppendLoadSwallowed(t) ==
    /\ updated_texts' = [updated_texts EXCEPT ![t] = new_texts[t]]
    /\ pc' = [pc EXCEPT ![t] = "save_open"]
    /\ UNCHANGED <<error, cache_lock, cacheFile>>

\* what append_to_cache does with a failed load: the except clause logs
\* and re-raises, the with block releases the lock, nothing is saved
AppendLoadFailed(t) ==
    /\ pc' = [pc EXCEPT ![t] = "raised"]
    /\ error' = [error EXCEPT ![t] = "load"]
    /\ cache_lock' = LockAfterRaise(t)
    /\ UNCHANGED <<updated_texts, cacheFile>>

\* existing_texts = self._load_from_cache() or []; updated_texts = ...
AppendLoad(t) ==
    /\ pc[t] = "load"
    /\ observed' = [observed EXCEPT ![t] = cacheFile.status]
    /\ IF CacheExists /\ ~Loadable
         THEN AppendLoadFailed(t)
         ELSE /\ updated_texts' =
                   [updated_texts EXCEPT ![t] = LoadedTexts \o new_texts[t]]
              /\ pc' = [pc EXCEPT ![t] = "save_open"]
              /\ UNCHANGED <<error, cache_lock, cacheFile>>
    /\ UNCHANGED <<searchVars, configVars, new_texts, loaderVars>>

\* _save_to_cache: open(cache_path, "wb") truncates the file in place
AppendSaveOpen(t) ==
    /\ pc[t] = "save_open"
    /\ cacheFile' = TornFile
    /\ pc' = [pc EXCEPT ![t] = "save_write"]
    /\ UNCHANGED <<searchVars, configVars, cache_lock, new_texts, updated_texts,
                   observed, error, loaderVars>>

\* the lock when the with block of append_to_cache is left normally
LockAfterExit(t) == NoThread

\* _save_to_cache: pickle.dump completes, the with block is left
AppendSaveWrite(t) ==
    /\ pc[t] = "save_write"
    /\ cacheFile' = OkFile(updated_texts[t])
    /\ pc' = [pc EXCEPT ![t] = "returned"]
    /\ cache_lock' = LockAfterExit(t)
    /\ UNCHANGED <<searchVars, configVars, new_texts, updated_texts, observed, error,
                   loaderVars>>

\* _save_to_cache raises, the except clause re-raises and the with block
\* releases the lock.  The failure modelled is the one that changes the
\* file: pickle.dump raises (e.g. the disk is full) after the truncation
AppendSaveFail(t) ==
    /\ pc[t] = "save_write"
    /\ cacheFile' = CorruptFile
    /\ pc' = [pc EXCEPT ![t] = "raised"]
    /\ error' = [error EXCEPT ![t] = "save"]
    /\ cache_lock' = LockAfterRaise(t)
    /\ UNCHANGED <<searchVars, configVars, new_texts, updated_texts, observed,
                   loaderVars>>

(***************************************************************************)
(* load_or_process_data, called once by a thread of its own.               *)
(***************************************************************************)
\* if self.config.should_use_cache
LoadOrProcessCall ==
    /\ lpc = "idle"
    /\ lpc' = IF should_use_cache THEN "load" ELSE "process"
    /\ UNCHANGED <<searchVars, configVars, cacheFile, cache_lock, appendVars,
                   lobserved, lprocessed, lresult, lerror>>

\* TRUE when load_or_process_data returns the list d it loaded
ReturnsLoaded(d) == Len(d) > 0

\* a load error that leaves load_or_process_data
LoaderLoadRaises ==
    /\ lpc' = "raised"
    /\ lerror' = "load"
    /\ UNCHANGED lresult

\* except Exception: the load error is logged and reprocessing follows
LoaderLoadFailed ==
    /\ lpc' = "process"
    /\ UNCHANGED <<lresult, lerror>>

\* processed_texts = self._load_from_cache(); if processed_texts: return
LoaderLoad ==
    /\ lpc = "load"
    /\ lobserved' = cacheFile.status
    /\ IF CacheExists /\ ~Loadable
         THEN LoaderLoadFailed
         ELSE IF Loadable /\ ReturnsLoaded(cacheFile.data)
                THEN /\ lresult' = cacheFile.data
                     /\ lpc' = "returned"
                     /\ UNCHANGED lerror
                ELSE /\ lpc' = "process"
                     /\ UNCHANGED <<lresult, lerror>>
    /\ UNCHANGED <<searchVars, configVars, cacheFile, cache_lock, appendVars,
                   lprocessed>>

\* _process_and_cache_data: read the raw source and process every line,
\* skipping the lines whose processing raises
LoaderProcess ==
    /\ lpc = "process"
    /\ \E okLines \in SUBSET (1 .. NumRawLines) :
         /\ lprocessed' = ProcessLines(1, okLines)
         /\ IF use_cache
              THEN /\ lpc' = "save_open"
                   /\ UNCHANGED lresult
              ELSE /\ lpc' = "returned"
                   /\ lresult' = ProcessLines(1, okLines)
    /\ UNCHANGED <<searchVars, configVars, cacheFile, cache_lock, appendVars,
                   lobserved, lerror>>

\* _process_and_cache_data: the raw source cannot be read; open raises
LoaderReadFail ==
    /\ lpc = "process"
    /\ lerror' = "read"
    /\ lpc' = "raised"
    /\ UNCHANGED <<searchVars, configVars, cacheFile, cache_lock, appendVars,
                   lobserved, lprocessed, lresult>>

\* _save_to_cache from the reprocess path: open(cache_path, "wb")
LoaderSaveOpen ==
    /\ lpc = "save_open"
    /\ cacheFile' = TornFile
    /\ lpc' = "save_write"
    /\ UNCHANGED <<searchVars, configVars, cache_lock, appendVars,
                   lobserved, lprocessed, lresult, lerror>>

\* _save_to_cache from the reprocess path: pickle.dump completes
LoaderSaveWrite ==
    /\ lpc = "save_write"
    /\ cacheFile' = OkFile(lprocessed)
    /\ lresult' = lprocessed
    /\ lpc' = "returned"
    /\ UNCHANGED <<searchVars, configVars, cache_lock, appendVars,
                   lobserved, lprocessed, lerror>>

\* _save_to_cache from the reprocess path: pickle.dump raises
LoaderSaveFail ==
    /\ lpc = "save_write"
    /\ cacheFile' = CorruptFile
    /\ lerror' = "save"
    /\ lpc' = "raised"
    /\ UNCHANGED <<searchVars, configVars, cache_lock, appendVars,
                   lobserved, lprocessed, lresult>>

AppendStep(t) ==
    \/ AppendCall(t)
    \/ AppendAcquire(t)
    \/ AppendLoad(t)
    \/ AppendSaveOpen(t)
    \/ AppendSaveWrite(t)
    \/ AppendSaveFail(t)

LoaderStep ==
    \/ LoadOrProcessCall
    \/ LoaderLoad
    \/ LoaderProcess
    \/ LoaderReadFail
    \/ LoaderSaveOpen
    \/ LoaderSaveWrite
    \/ LoaderSaveFail

\* appenders only
AppendNext == \E t \in Appenders : AppendStep(t)

\* appenders and one load_or_process_data caller
CacheNext == AppendNext \/ LoaderStep


(***************************************************************************)
(* The search service.  Scores are in hundredths: 100 stands for 1.0.      *)
(***************************************************************************)
Texts == 1 .. NumTexts
Keywords == 1 .. NumKeywords

\* the score 1.0
ScoreOne == 100
\* KEYWORD_BONUS = 0.6
KEYWORD_BONUS == 60
\* the thresholds requests are made with
Thresholds == {0, 50, 80}

\* the cosine similarity of each text to two keyword embeddings
ScoreProfiles ==
    << <<80, 75>>, <<30, 35>>, <<100, 40>>, <<100, 75>>, <<80, 0>>, <<30, 75>> >>

\* the score the vector store gives text x for the embedding of keyword k
Score(k, x) ==
    ScoreProfiles[((x - 1) % Len(ScoreProfiles)) + 1][((k - 1) % 2) + 1]

Max2(a, b) == IF a >= b THEN a ELSE b
Min2(a, b) == IF a <= b THEN a ELSE b

NoRequest == [keywords |-> <<>>, threshold |-> 0, max_results |-> 0]

\* thresholds outside [0, 1]
InvalidThresholds == {-10, 110}

\* the arguments SearchRequest can be constructed with
RequestArgs ==
    [keywords : UNION {[1 .. n -> Keywords] : n \in 0 .. MaxKeywords},
     threshold : Thresholds \cup InvalidThresholds,
     max_results : 0 .. MaxResults]

\* a validation without the check of max_results
ValidWithoutMaxResults(r) ==
    /\ Len(r.keywords) > 0
    /\ 0 <= r.threshold /\ r.threshold <= ScoreOne

\* SearchRequest.__post_init__: the arguments that raise no ValueError
ValidRequest(r) ==
    /\ Len(r.keywords) > 0
    /\ 0 <= r.threshold /\ r.threshold <= ScoreOne
    /\ r.max_results >= 1

\* the requests that can be constructed
Requests == {r \in RequestArgs : ValidRequest(r)}

\* no call is being served
ServiceIdle ==
    /\ request = NoRequest
    /\ args = NoRequest
    /\ outcome = "none"
    /\ pending = <<>>
    /\ keyword_results = <<>>
    /\ final_results = <<>>
    /\ response = <<>>

\* PatentSearchService as constructed: an empty collection, nothing served,
\* the embedding model and the vector store working
SearchStart ==
    /\ index = <<>>
    /\ store_down = {}
    /\ embed_down = {}
    /\ store_slow = {}
    /\ ServiceIdle

\* stable sort, descending: the permutation of 1 .. n that list.sort(key=...,
\* reverse=True) applies to a list whose keys are keys[1 .. n]
RECURSIVE InsertDesc(_, _, _)
InsertDesc(i, perm, keys) ==
    IF perm = <<>> THEN <<i>>
    ELSE IF keys[Head(perm)] >= keys[i]
           THEN <<Head(perm)>> \o InsertDesc(i, Tail(perm), keys)
           ELSE <<i>> \o perm

RECURSIVE SortPermDesc(_, _)
SortPermDesc(n, keys) ==
    IF n = 0 THEN <<>>
    ELSE InsertDesc(n, SortPermDesc(n - 1, keys), keys)

\* the first n elements of a sequence: s[:n]
Take(s, n) == SubSeq(s, 1, Min2(n, Len(s)))

\* the elements of s in the order perm
Permuted(s, perm) == [j \in 1 .. Len(s) |-> s[perm[j]]]

\* the points of the collection with their score for keyword k
ScoredPoints(k) ==
    [i \in 1 .. Len(index) |-> [text |-> index[i], score |-> Score(k, index[i])]]

\* list.sort(key=lambda x: x.score, reverse=True)
SortedByScore(results) ==
    Permuted(results,
             SortPermDesc(Len(results),
                          [j \in 1 .. Len(results) |-> results[j].score]))

\* a filter that lets every score through
AnyScore(score, score_threshold) == TRUE

\* score_threshold=threshold: the scores the vector store lets through
AboveThreshold(score, score_threshold) == score >= score_threshold

\* client.search: the points scoring at least the threshold, best first
\* (equal scores in collection order), at most limit of them
QdrantSearch(k, limit, score_threshold) ==
    Take(SelectSeq(SortedByScore(ScoredPoints(k)),
                   LAMBDA h : AboveThreshold(h.score, score_threshold)),
         limit)

\* TextIndexer.search: the hits, sorted by score; [] when the query raised
IndexerSearch(k, top_k, threshold) ==
    IF k \in store_down THEN <<>>
    ELSE SortedByScore(QdrantSearch(k, top_k, threshold))

\* _search_single_keyword
SearchSingleKeyword(k, max_results, threshold) ==
    IndexerSearch(k, max_results, threshold)

\* the keywords as given, a repeated one kept each time
EveryKeyword(keywords) == keywords

\* the keys of the dict keyword_results, in insertion order
RECURSIVE DictKeys(_)
DictKeys(keywords) ==
    IF keywords = <<>> THEN <<>>
    ELSE <<Head(keywords)>>
         \o SelectSeq(DictKeys(Tail(keywords)),
                      LAMBDA k : k # Head(keywords))

\* search: keyword_results[keyword] = results, for each keyword
KeywordResults(r) ==
    LET keys == DictKeys(r.keywords)
    IN  [e \in 1 .. Len(keys) |->
            [keyword |-> keys[e],
             results |-> SearchSingleKeyword(keys[e], r.max_results,
                                             r.threshold)]]

\* a lookup that never finds the text
NeverFound(combined, x) == 0

\* the position of text x in combined_scores, 0 when it is not in it
PositionOf(combined, x) ==
    IF \E i \in 1 .. Len(combined) : combined[i].text = x
      THEN CHOOSE i \in 1 .. Len(combined) : combined[i].text = x
      ELSE 0

\* a base score that keeps the first score seen
KeepFirstScore(old, new) == old

\* entry["base_score"] = max(entry["base_score"], result.score)
MergeBaseScore(old, new) == Max2(old, new)

\* _merge_keyword_results: one hit of one keyword into combined_scores
MergeHit(combined, keyword, hit) ==
    LET p == PositionOf(combined, hit.text)
    IN  IF p = 0
          THEN Append(combined, [text |-> hit.text,
                                 base_score |-> hit.score,
                                 keyword_matches |-> {keyword}])
          ELSE [combined EXCEPT
                  ![p].base_score = MergeBaseScore(@, hit.score),
                  ![p].keyword_matches = @ \cup {keyword}]

RECURSIVE MergeHits(_, _, _)
MergeHits(combined, keyword, results) ==
    IF results = <<>> THEN combined
    ELSE MergeHits(MergeHit(combined, keyword, Head(results)),
                   keyword, Tail(results))

\* _merge_keyword_results: the loop over keyword_results.items()
RECURSIVE CombinedScores(_, _)
CombinedScores(combined, kr) ==
    IF kr = <<>> THEN combined
    ELSE CombinedScores(MergeHits(combined, Head(kr).keyword,
                                  Head(kr).results),
                        Tail(kr))

\* a final score without the cap
UncappedScore(base_score, keyword_bonus) == base_score + keyword_bonus

\* final_score = min(1.0, data["base_score"] + keyword_bonus)
FinalScore(base_score, keyword_bonus) ==
    Min2(ScoreOne, base_score + keyword_bonus)

\* a bonus that counts the first match too
BonusPerMatch(num_matches) == KEYWORD_BONUS * num_matches

\* keyword_bonus = KEYWORD_BONUS * (num_matches - 1)
KeywordBonus(num_matches) == KEYWORD_BONUS * (num_matches - 1)

\* the SearchResultItem of one entry of combined_scores
ResultItem(data, total_keywords) ==
    LET num_matches == Cardinality(data.keyword_matches)
        keyword_bonus == KeywordBonus(num_matches)
        final_score == FinalScore(data.base_score, keyword_bonus)
    IN  [text |-> data.text,
         similarity |-> final_score,
         explanation |-> [num_matches |-> num_matches,
                          total_keywords |-> total_keywords,
                          keyword_matches |-> data.keyword_matches,
                          base_score |-> data.base_score,
                          keyword_bonus |-> keyword_bonus,
                          final_score |-> final_score]]

\* the SearchResultItem of every entry of combined_scores
ResultItems(combined, total_keywords) ==
    [i \in 1 .. Len(combined) |-> ResultItem(combined[i], total_keywords)]

\* a list left in the order of combined_scores
Unsorted(items) == items

\* final_results.sort(key=lambda x: x.similarity, reverse=True)
SortedBySimilarity(items) ==
    Permuted(items,
             SortPermDesc(Len(items),
                          [i \in 1 .. Len(items) |-> items[i].similarity]))

\* _merge_keyword_results up to the sort
SortedResults(kr) ==
    SortedBySimilarity(ResultItems(CombinedScores(<<>>, kr), Len(kr)))

\* a slice that keeps the whole list
KeepAll(results, max_results) == results

\* final_results[:max_results]
Truncate(results, max_results) == Take(results, max_results)

\* PatentSearchService.search: the results returned for request r
ResultsFor(r) == Truncate(SortedResults(KeywordResults(r)), r.max_results)

\* the keywords embedded before the first one whose embedding raises
RECURSIVE EmbeddedPrefix(_)
EmbeddedPrefix(keywords) ==
    IF keywords = <<>> THEN <<>>
    ELSE IF Head(keywords) \in embed_down THEN <<>>
    ELSE <<Head(keywords)>> \o EmbeddedPrefix(Tail(keywords))

\* a service that answers whatever fails
AlwaysResponds(r) == "response"

\* a service in which the failure of a vector-store query propagates too
FailsOnAnyFault(r) ==
    IF \E e \in 1 .. Len(r.keywords) :
          r.keywords[e] \in embed_down \cup store_down
      THEN "HTTP 500"
      ELSE "response"

\* how the /search endpoint ends: model.encode is called outside any try
\* block, so its exception leaves search and the endpoint answers 500
SearchOutcome(r) ==
    IF \E e \in 1 .. Len(r.keywords) : r.keywords[e] \in embed_down
      THEN "HTTP 500"
      ELSE "response"

\* a search that stores the keywords it is asked for
QueriesStored(r) == index \o r.keywords

\* the collection after the queries of a search: client.search only reads
IndexAfterSearch(r) == index

\* PatentSearchService.search for request r, under the /search endpoint
Serve(r) ==
    /\ args' = r
    /\ request' = r
    /\ outcome' = SearchOutcome(r)
    /\ IF SearchOutcome(r) = "response"
         THEN \E kr \in {KeywordResults(r)} :
                \E sorted \in {SortedResults(kr)} :
                  /\ keyword_results' = kr
                  /\ final_results' = sorted
                  /\ response' = Truncate(sorted, r.max_results)
         ELSE /\ keyword_results'
                  = KeywordResults([r EXCEPT
                                     !.keywords = EmbeddedPrefix(r.keywords)])
              /\ final_results' = <<>>
              /\ response' = <<>>
    /\ index' = IndexAfterSearch(r)
    /\ pending' = <<>>
    /\ UNCHANGED <<faultVars, otherVars, cacheVars>>

\* a client calls the /search endpoint with a request
Search ==
    /\ outcome = "none"
    /\ \E r \in Requests : Serve(r)

\* a client sends the request just answered once more
SearchAgain ==
    /\ outcome = "response"
    /\ Serve(request)

\* SearchRequest(...) raises ValueError: no request, nothing is searched
RequestRejected ==
    /\ outcome = "none"
    /\ \E a \in RequestArgs :
         /\ ~ValidRequest(a)
         /\ args' = a
    /\ outcome' = "ValueError"
    /\ UNCHANGED <<index, request, keyword_results, final_results, response,
                   pending, faultVars, otherVars, cacheVars>>

\* the call is over: the response or the error has gone to the client
SearchReturn ==
    /\ outcome \notin {"none", "pending"}
    /\ request' = NoRequest
    /\ args' = NoRequest
    /\ outcome' = "none"
    /\ keyword_results' = <<>>
    /\ final_results' = <<>>
    /\ response' = <<>>
    /\ UNCHANGED <<index, pending, faultVars, otherVars, cacheVars>>

\* keyword_results[keyword] = results: a new key goes last, a key already
\* in the dict keeps its place
DictSet(kr, keyword, results) ==
    IF \E e \in 1 .. Len(kr) : kr[e].keyword = keyword
      THEN [e \in 1 .. Len(kr) |->
              IF kr[e].keyword = keyword
                THEN [keyword |-> keyword, results |-> results]
                ELSE kr[e]]
      ELSE Append(kr, [keyword |-> keyword, results |-> results])

\* the /search endpoint calls search: the loop over request.keywords starts
SearchCall ==
    /\ outcome = "none"
    /\ \E r \in Requests :
         /\ args' = r
         /\ request' = r
         /\ pending' = r.keywords
    /\ outcome' = "pending"
    /\ keyword_results' = <<>>
    /\ UNCHANGED <<index, final_results, response, faultVars, otherVars,
                   cacheVars>>

\* search: one turn of the loop, _search_single_keyword for the next
\* keyword; the call of client.search returns only when the query completes
QueryKeyword ==
    /\ outcome = "pending"
    /\ pending # <<>>
    /\ IF Head(pending) \in embed_down
         THEN /\ outcome' = "HTTP 500"
              /\ pending' = <<>>
              /\ UNCHANGED keyword_results
         ELSE /\ Head(pending) \notin store_slow
              /\ keyword_results'
                   = DictSet(keyword_results, Head(pending),
                             SearchSingleKeyword(Head(pending),
                                                 request.max_results,
                                                 request.threshold))
              /\ pending' = Tail(pending)
              /\ UNCHANGED outcome
    /\ UNCHANGED <<index, request, args, final_results, response, faultVars,
                   otherVars, cacheVars>>

\* search: after the loop, _merge_keyword_results and the SearchResponse
SearchMerge ==
    /\ outcome = "pending"
    /\ pending = <<>>
    /\ \E sorted \in {SortedResults(keyword_results)} :
         /\ final_results' = sorted
         /\ response' = Truncate(sorted, request.max_results)
    /\ outcome' = "response"
    /\ UNCHANGED <<index, request, args, keyword_results, pending, faultVars,
                   otherVars, cacheVars>>

\* s with x put in at position p
InsertAt(s, p, x) == SubSeq(s, 1, p - 1) \o <<x>> \o SubSeq(s, p, Len(s))

\* the collections that upserting texts under fresh uuid4 ids can give
RECURSIVE Upserted(_, _)
Upserted(points, texts) ==
    IF texts = <<>> THEN {points}
    ELSE UNION {Upserted(InsertAt(points, p, Head(texts)), Tail(texts)) :
                  p \in 1 .. Len(points) + 1}

\* PatentSearchService.add_texts -> TextIndexer.add_texts: self.metadata
\* gets one entry per record, then the points are upserted
AddTexts ==
    /\ outcome = "none"
    /\ \E n \in 1 .. (MaxIndexSize - Len(index)) :
         \E texts \in [1 .. n -> Texts] :
           /\ metadata' = metadata + n
           /\ index' \in Upserted(index, texts)
    /\ UNCHANGED <<request, keyword_results, final_results, response,
                   args, outcome, pending, faultVars, procVars, snapshot,
                   loaded, addVars, cacheVars>>

\* TextIndexer.add_texts when client.upsert raises (a vector of another
\* size than the collection's, the store unreachable): self.metadata has
\* its entry for every record by then, and the except branch re-raises
AddTextsRaises ==
    /\ outcome = "none"
    /\ \E n \in 1 .. (MaxIndexSize - metadata) :
         metadata' = metadata + n
    /\ UNCHANGED <<searchVarsButOthers, procVars, snapshot, loaded, addVars,
                   cacheVars>>

(***************************************************************************)
(* TextIndexer.save_index and TextIndexer(load_from=path).  An entry of    *)
(* vectors.json is its payload text and what its "vector" is: a list of    *)
(* the declared dimension ("list"), a list of another length               *)
(* ("other_length") or not a list ("not_list").                            *)
(***************************************************************************)
VectorKinds == {"list", "other_length", "not_list"}

NoSnapshot == [status |-> "absent", metadata |-> 0, vectors |-> <<>>]
NotLoaded == [status |-> "none", metadata |-> 0, points |-> <<>>]

\* snapshot directories that save_index did not write: any vectors.json
\* of up to MaxIndexSize entries, state.json with an id for each
ForeignSnapshots ==
    {[status |-> "foreign", metadata |-> Len(kinds),
      vectors |-> [i \in 1 .. Len(kinds) |->
                     [text |-> i, vector |-> kinds[i]]]] :
       kinds \in UNION {[1 .. n -> VectorKinds] : n \in 0 .. MaxIndexSize}}

\* an export that stops after the first point
FirstPointOnly(points) ==
    [i \in 1 .. Min2(1, Len(points)) |->
        [text |-> points[i], vector |-> "list"]]

\* save_index: client.scroll until the offset is None; every point of the
\* collection, with its id, its vector as a list and its payload
ScrolledVectors(points) ==
    [i \in 1 .. Len(points) |-> [text |-> points[i], vector |-> "list"]]

\* save_index(path)
SaveIndex ==
    /\ outcome = "none"
    /\ snapshot' = [status |-> "saved", metadata |-> metadata,
                    vectors |-> ScrolledVectors(index)]
    /\ UNCHANGED <<searchVarsButOthers, procVars, metadata, loaded, addVars,
                   cacheVars>>

\* a load that inserts every entry
EveryEntry(vectors_data) ==
    [i \in 1 .. Len(vectors_data) |-> vectors_data[i].text]

\* _load_state: the points upserted, under their saved ids: the entries
\* whose vector is a list of the declared dimension
LoadedPoints(vectors_data) ==
    LET valid == SelectSeq(vectors_data, LAMBDA item : item.vector = "list")
    IN  [i \in 1 .. Len(valid) |-> valid[i].text]

\* TextIndexer(load_from=path): _load_state into a client of its own;
\* open raises when the directory holds no state.json
LoadIndex ==
    /\ outcome = "none"
    /\ loaded' = IF snapshot.status = "absent"
                   THEN [status |-> "raised", metadata |-> 0,
                         points |-> <<>>]
                   ELSE [status |-> "loaded",
                         metadata |-> snapshot.metadata,
                         points |-> LoadedPoints(snapshot.vectors)]
    /\ UNCHANGED <<searchVarsButOthers, procVars, metadata, snapshot,
                   addVars, cacheVars>>

\* TextIndexer.search of an indexer whose collection holds points and whose
\* store answers
SearchOf(points, k, top_k, threshold) ==
    LET scored == [i \in 1 .. Len(points) |->
                     [text |-> points[i], score |-> Score(k, points[i])]]
        hits == Take(SelectSeq(SortedByScore(scored),
                               LAMBDA h : AboveThreshold(h.score, threshold)),
                     top_k)
    IN  SortedByScore(hits)

\* the indexer after its calls have gone through, nothing saved or loaded
IndexerIdle ==
    /\ metadata = Len(index)
    /\ snapshot = NoSnapshot
    /\ loaded = NotLoaded

IndexerNext == AddTexts \/ AddTextsRaises \/ SaveIndex \/ LoadIndex

(***************************************************************************)
(* POST /patents/add.                                                      *)
(***************************************************************************)
NoSubmission == [patents |-> <<>>, ntotal |-> 0]
NotAdded == [status |-> "none", processed |-> 0]

\* nothing has been posted
AddIdle ==
    /\ submission = NoSubmission
    /\ added = NotAdded

\* add_patents: patent_service.add_texts(texts, metadata) hands two
\* arguments to a method that takes one; the TypeError is caught by
\* except Exception and answered with HTTP 500, before anything is added
\* to the index and before the background task is scheduled
AddPatents ==
    /\ outcome = "none"
    /\ added = NotAdded
    /\ \E n \in 1 .. MaxIndexSize :
         \E texts \in [1 .. n -> Texts] :
           submission' = [patents |-> texts, ntotal |-> Len(index)]
    /\ added' = [status |-> "HTTP 500", processed |-> 0]
    /\ UNCHANGED <<searchVarsButOthers, procVars, indexVars, cacheVars>>

\* the answer of add_patents has been sent
AddReturn ==
    /\ added # NotAdded
    /\ submission' = NoSubmission
    /\ added' = NotAdded
    /\ UNCHANGED <<searchVarsButOthers, procVars, indexVars, cacheVars>>

AddNext == AddTexts \/ AddPatents \/ AddReturn

SearchNext == Search \/ SearchAgain \/ SearchReturn \/ AddTexts

\* the texts 1 .. n stored in this order
StoredTexts(n) == [i \in 1 .. n |-> i]

ErrorNext == Search \/ RequestRejected \/ SearchReturn

SlowNext == SearchCall \/ QueryKeyword \/ SearchMerge \/ SearchReturn

(***************************************************************************)
(* The text processor.  A text is a sequence of characters: "a" stands for *)
(* a word character, " " for whitespace and "!" for a special character.   *)
(***************************************************************************)
Chars == {"a", " ", "!"}

\* the raw texts of at most MaxTextLen characters
RawTexts == UNION {[1 .. n -> Chars] : n \in 0 .. MaxTextLen}

\* the batches handed to batch_process: texts without whitespace
BatchInputs ==
    UNION {[1 .. n -> {t \in RawTexts : \A i \in 1 .. Len(t) : t[i] # " "}] :
             n \in 0 .. MaxBatch}

RECURSIVE DropLeading(_)
DropLeading(s) ==
    IF s # <<>> /\ Head(s) = " " THEN DropLeading(Tail(s)) ELSE s

RECURSIVE DropTrailing(_)
DropTrailing(s) ==
    IF s # <<>> /\ s[Len(s)] = " "
      THEN DropTrailing(SubSeq(s, 1, Len(s) - 1))
      ELSE s

\* str.strip()
Strip(s) == DropTrailing(DropLeading(s))

\* runs of whitespace made one space
RECURSIVE Collapse(_)
Collapse(s) ==
    IF Len(s) < 2 THEN s
    ELSE IF s[1] = " " /\ s[2] = " " THEN Collapse(Tail(s))
    ELSE <<Head(s)>> \o Collapse(Tail(s))

\* " ".join(text.split())
SplitJoin(s) == Strip(Collapse(s))

\* re.sub(r"[^\w\s\u0080-\uffff]", " ", text)
ReplaceSpecial(s) == [i \in 1 .. Len(s) |-> IF s[i] = "!" THEN " " ELSE s[i]]

\* TextProcessor.clean_text
clean_text(text) == Strip(SplitJoin(ReplaceSpecial(SplitJoin(text))))

\* model.encode(text): the embedding of a text
Embed(text) == [of |-> text]

\* embedding = None
NoEmbedding == [of |-> "None"]

\* TextProcessor.process_text: <<>> for None, or the one ProcessedText
process_text(text, generate_embedding) ==
    IF Len(Strip(text)) < min_text_length THEN <<>>
    ELSE LET cleaned_text == clean_text(text)
         IN  IF cleaned_text = <<>> THEN <<>>
             ELSE << [text |-> cleaned_text,
                      embedding |-> IF generate_embedding
                                      THEN Embed(cleaned_text)
                                      ELSE NoEmbedding,
                      original_length |-> Len(text),
                      processed_length |-> Len(cleaned_text)] >>

\* batch_process: processed_batch, the texts of batch that process_text
\* accepts, without embeddings
RECURSIVE ProcessedBatch(_)
ProcessedBatch(batch) ==
    IF batch = <<>> THEN <<>>
    ELSE process_text(Head(batch), FALSE) \o ProcessedBatch(Tail(batch))

\* model.encode(batch_texts): one embedding for each text, in order
EncodeBatch(batch_texts) ==
    [j \in 1 .. Len(batch_texts) |-> Embed(batch_texts[j])]

\* every record given the first embedding
WithFirstEmbedding(processed_batch, embeddings) ==
    [j \in 1 .. Len(processed_batch) |->
        [processed_batch[j] EXCEPT !.embedding = embeddings[1]]]

\* for processed, embedding in zip(processed_batch, embeddings)
WithEmbeddings(processed_batch, embeddings) ==
    [j \in 1 .. Len(processed_batch) |->
        [processed_batch[j] EXCEPT !.embedding = embeddings[j]]]

\* batch_process: the records of the batches from position i on
RECURSIVE BatchesFrom(_, _, _)
BatchesFrom(i, raw, batch_size) ==
    IF i > Len(raw) THEN <<>>
    ELSE LET batch == SubSeq(raw, i, Min2(i + batch_size - 1, Len(raw)))
             processed_batch == ProcessedBatch(batch)
             batch_texts == [j \in 1 .. Len(processed_batch) |->
                               processed_batch[j].text]
         IN  (IF processed_batch # <<>>
                THEN WithEmbeddings(processed_batch, EncodeBatch(batch_texts))
                ELSE processed_batch)
             \o BatchesFrom(i + batch_size, raw, batch_size)

\* TextProcessor.batch_process, with generate_embeddings=True
batch_process(raw, batch_size) == BatchesFrom(1, raw, batch_size)

\* no call of the TextProcessor has been made
NoCall == [op |-> "none", input |-> <<>>, batch_size |-> 0, output |-> <<>>]

ProcessorUnused ==
    /\ raw_texts = <<>>
    /\ call = NoCall

\* a TextProcessor and the raw texts it is going to be given
ProcessorStart ==
    /\ raw_texts \in {<<t>> : t \in RawTexts} \cup BatchInputs
    /\ call = NoCall

\* a call of process_text on one of the raw texts
ProcessText ==
    /\ call.op = "none"
    /\ \E i \in 1 .. Len(raw_texts) :
         call' = [op |-> "process_text", input |-> raw_texts[i], batch_size |-> 0,
                  output |-> process_text(raw_texts[i], TRUE)]
    /\ UNCHANGED <<raw_texts, searchVarsButOthers, indexVars, addVars,
                   cacheVars>>

\* a call of batch_process on the raw texts
BatchProcess ==
    /\ call.op = "none"
    /\ \E batch_size \in 1 .. MaxBatch :
         call' = [op |-> "batch_process", input |-> raw_texts,
                  batch_size |-> batch_size,
                  output |-> batch_process(raw_texts, batch_size)]
    /\ UNCHANGED <<raw_texts, searchVarsButOthers, indexVars, addVars,
                   cacheVars>>

ProcessorNext == ProcessText \/ BatchProcess

OthersUnused == ProcessorUnused /\ IndexerIdle /\ AddIdle

(***************************************************************************)
(* Specifications.                                                         *)
(***************************************************************************)
\* the cache under concurrent callers; nothing is searched
CacheInit == CacheStart /\ SearchStart /\ OthersUnused

\* the cache is not in use
CacheUnused ==
    /\ use_cache = FALSE
    /\ force_reprocess = FALSE
    /\ cacheFile = AbsentFile
    /\ cache0 = <<>>
    /\ cache_lock = NoThread
    /\ pc = [t \in Appenders |-> "idle"]
    /\ new_texts = [t \in Appenders |-> <<>>]
    /\ updated_texts = [t \in Appenders |-> <<>>]
    /\ observed = [t \in Appenders |-> "none"]
    /\ error = [t \in Appenders |-> "none"]
    /\ lpc = "idle"
    /\ lobserved = "none"
    /\ lprocessed = <<>>
    /\ lresult = <<>>
    /\ lerror = "none"

\* the search service alone
SearchInit == SearchStart /\ CacheUnused /\ OthersUnused

\* the text processor alone
ProcessorInit ==
    SearchStart /\ CacheUnused /\ ProcessorStart /\ IndexerIdle /\ AddIdle

\* an indexer, and a snapshot directory that is absent or was written by
\* something else
IndexerInit ==
    /\ SearchStart
    /\ CacheUnused
    /\ ProcessorUnused
    /\ AddIdle
    /\ metadata = 0
    /\ snapshot \in {NoSnapshot} \cup ForeignSnapshots
    /\ loaded = NotLoaded

\* the service with its /patents/add endpoint
AddInit == SearchStart /\ CacheUnused /\ OthersUnused

\* the search service over a filled collection, with the embedding model
\* or the vector store failing for some keywords
ErrorInit ==
    /\ ServiceIdle
    /\ CacheUnused
    /\ index \in {StoredTexts(n) : n \in 0 .. MaxIndexSize}
    /\ store_down \in SUBSET Keywords
    /\ embed_down \in SUBSET Keywords
    /\ store_slow = {}
    /\ OthersUnused

\* the search service over a filled collection whose queries for some
\* keywords never complete
SlowInit ==
    /\ ServiceIdle
    /\ CacheUnused
    /\ index \in {StoredTexts(n) : n \in 0 .. MaxIndexSize}
    /\ store_down = {}
    /\ embed_down = {}
    /\ store_slow \in SUBSET Keywords
    /\ OthersUnused

AppendSpec == CacheInit /\ [][AppendNext]_vars
\* the appender threads are scheduled fairly
AppendFairSpec ==
    /\ AppendSpec
    /\ \A t \in Appenders : WF_vars(AppendStep(t))
CacheSpec == CacheInit /\ [][CacheNext]_vars
SearchSpec == SearchInit /\ [][SearchNext]_vars
ErrorSpec == ErrorInit /\ [][ErrorNext]_vars
ProcessorSpec == ProcessorInit /\ [][ProcessorNext]_vars
IndexerSpec == IndexerInit /\ [][IndexerNext]_vars
AddSpec == AddInit /\ [][AddNext]_vars
\* the thread serving the request keeps running
SlowSpec ==
    /\ SlowInit
    /\ [][SlowNext]_vars
    /\ WF_vars(QueryKeyword)
    /\ WF_vars(SearchMerge)
    /\ WF_vars(SearchReturn)

(***************************************************************************)
(* Properties of the cache.                                                *)
(***************************************************************************)
InCriticalSection(t) == pc[t] \in {"load", "save_open", "save_write"}
Finished(t) == pc[t] \in {"returned", "raised"}
AllAppendsReturned == \A t \in Appenders : pc[t] = "returned"

RECURSIVE TotalAppended(_)
TotalAppended(S) ==
    IF S = {} THEN 0
    ELSE LET t == CHOOSE x \in S : TRUE
         IN Len(new_texts[t]) + TotalAppended(S \ {t})

\* C1: once every concurrent append_to_cache call has returned (use_cache
\* true), the cache holds the initial records and every caller's records:
\* its size is the initial size plus the sizes of all appended lists, and
\* no record is missing.
C1_ConcurrentAppendsKeepAll ==
    (use_cache /\ AllAppendsReturned) =>
        /\ cacheFile.status = "ok"
        /\ Len(cacheFile.data) = Len(cache0) + TotalAppended(Appenders)
        /\ Range(cache0) \subseteq Range(cacheFile.data)
        /\ \A t \in Appenders :
             Range(new_texts[t]) \subseteq Range(cacheFile.data)

\* two callers have appended non-empty lists to a non-empty cache
C1_Witness ==
    /\ use_cache
    /\ AllAppendsReturned
    /\ cache0 # <<>>
    /\ \A t \in Appenders : new_texts[t] # <<>>

\* C2: the save of the reprocess path never runs while an append_to_cache
\* is inside its load-concatenate-save critical section.
C2_ReprocessSaveExcluded ==
    ~(lpc = "save_write" /\ \E t \in Appenders : InCriticalSection(t))

\* C3: no _load_from_cache reads the cache file while a save has truncated
\* it and not yet finished writing it.
C3_LoadNeverSeesPartialCache ==
    /\ lobserved # "torn"
    /\ \A t \in Appenders : observed[t] # "torn"

\* C4: when the load inside append_to_cache finds the file present but
\* unreadable, the call raises, saves nothing and leaves the file as it was;
\* a call that goes on to save found the file absent (taken as empty) or
\* loaded it, and a call that raised does nothing more.
C4_AppendLoadFailureRaises ==
    [][\A t \in Appenders :
         /\ (pc[t] = "load" /\ pc'[t] # "load" /\ CacheExists /\ ~Loadable)
              => /\ pc'[t] = "raised"
                 /\ error'[t] = "load"
                 /\ cacheFile' = cacheFile
         /\ (pc[t] = "load" /\ pc'[t] = "save_open")
              => /\ cacheFile.status \in {"absent", "ok"}
                 /\ updated_texts'[t] = cacheFile.data \o new_texts[t]
         /\ (pc[t] = "raised") => (pc'[t] = "raised" /\ error'[t] = error[t])
      ]_vars

\* an append has raised on its load and the unreadable file is still there
C4_Witness ==
    \E t \in Appenders :
        /\ pc[t] = "raised"
        /\ error[t] = "load"
        /\ observed[t] = "corrupt"
        /\ cacheFile.status = "corrupt"

\* C5: an append_to_cache that has returned or raised does not hold the
\* cache lock, and once some append has raised, every append waiting for
\* the lock eventually returns or raises.
C5_LockReleasedOnEveryExit ==
    /\ [](\A t \in Appenders : Finished(t) => cache_lock # t)
    /\ \A t \in Appenders :
         (pc[t] = "acquire" /\ \E u \in Appenders : pc[u] = "raised")
             ~> Finished(t)

\* an append holds the lock after another one has raised
C5_Witness ==
    \E t, u \in Appenders :
        /\ t # u
        /\ pc[t] = "raised"
        /\ error[t] = "save"
        /\ cache_lock = u

\* C6: on the cache path, a load that succeeds makes load_or_process_data
\* return exactly the loaded list, whatever its size, without processing
\* and without rewriting the cache.
C6_CacheHitReturnsLoaded ==
    [][(lpc = "load" /\ lpc' # "load" /\ Loadable)
         => /\ lpc' = "returned"
            /\ lresult' = cacheFile.data
            /\ cacheFile' = cacheFile
      ]_vars

\* C7: when the cache is selected and loading it fails, load_or_process_data
\* does not raise the load error; it reprocesses, and what it then returns
\* is the reprocessed list.
C7_LoadFailureFallsThrough ==
    (lobserved \in {"torn", "corrupt"}) =>
        /\ lpc \in {"process", "save_open", "save_write", "returned", "raised"}
        /\ lerror # "load"
        /\ (lpc = "raised") => (lerror \in {"read", "save"})
        /\ (lpc = "returned") => (lresult = lprocessed)

\* load_or_process_data has returned reprocessed records after a failed load
C7_Witness ==
    /\ lobserved \in {"torn", "corrupt"}
    /\ lpc = "returned"
    /\ lresult # <<>>
    /\ lresult = lprocessed

(***************************************************************************)
(* Properties of the search.                                               *)
(***************************************************************************)
\* the scores of the hits of text x, over the hit lists of all keywords
HitScoresOf(x) ==
    UNION {{keyword_results[e].results[j].score :
               j \in {j \in 1 .. Len(keyword_results[e].results) :
                         keyword_results[e].results[j].text = x}} :
             e \in 1 .. Len(keyword_results)}

\* the keywords whose hit list holds text x
KeywordsHitting(x) ==
    {keyword_results[e].keyword :
        e \in {e \in 1 .. Len(keyword_results) :
                 \E j \in 1 .. Len(keyword_results[e].results) :
                     keyword_results[e].results[j].text = x}}

SetMax(S) == CHOOSE m \in S : \A y \in S : y <= m

\* C8: for every merged text, base_score is the highest score among all
\* its hits over all keywords, and similarity is
\* min(1.0, base_score + 0.6 * (numMatches - 1)), numMatches being the
\* number of distinct keywords that hit the text.
C8_WeightedScore ==
    \A i \in 1 .. Len(final_results) :
        LET item == final_results[i]
            base == SetMax(HitScoresOf(item.text))
            numMatches == Cardinality(KeywordsHitting(item.text))
        IN  /\ item.explanation.base_score = base
            /\ item.explanation.num_matches = numMatches
            /\ item.similarity = Min2(100, base + 60 * (numMatches - 1))

\* hits of 0.80 and 0.75 by two keywords on one text: base 0.80, final 1.0
C8_Witness ==
    \E i \in 1 .. Len(final_results) :
        /\ HitScoresOf(final_results[i].text) = {80, 75}
        /\ Cardinality(KeywordsHitting(final_results[i].text)) = 2
        /\ final_results[i].explanation.base_score = 80
        /\ final_results[i].explanation.keyword_bonus = 60
        /\ final_results[i].similarity = 100

\* C9: every result item returned by search has a similarity in [0, 1].
C9_SimilarityInUnitRange ==
    \A i \in 1 .. Len(response) :
        /\ 0 <= response[i].similarity
        /\ response[i].similarity <= 100

\* a returned item whose base score plus bonus exceeds 1.0
C9_Witness ==
    \E i \in 1 .. Len(response) :
        /\ response[i].explanation.base_score
             + response[i].explanation.keyword_bonus > 100
        /\ response[i].similarity = 100

\* the merged results whose text is not among the returned ones
CutOff ==
    {i \in 1 .. Len(final_results) :
        \A j \in 1 .. Len(response) :
            response[j].text # final_results[i].text}

\* C10: search returns at most max_results results, each of them a merged
\* result, and no merged result that is cut off has a higher similarity
\* than a result that is kept.
C10_AtMostMaxResults ==
    /\ Len(response) <= request.max_results
    /\ \A j \in 1 .. Len(response) :
         \E i \in 1 .. Len(final_results) : final_results[i] = response[j]
    /\ \A i \in CutOff :
         \A j \in 1 .. Len(response) :
             final_results[i].similarity <= response[j].similarity

\* more texts were merged than max_results allows, with unequal scores
C10_Witness ==
    /\ request # NoRequest
    /\ Len(final_results) > request.max_results
    /\ Len(response) = request.max_results
    /\ \E i \in CutOff :
         final_results[i].similarity < response[Len(response)].similarity

\* the texts that the hit list of at least one keyword holds
HitTexts ==
    UNION {{keyword_results[e].results[j].text :
               j \in 1 .. Len(keyword_results[e].results)} :
             e \in 1 .. Len(keyword_results)}

\* the positions of text x in a list of result items
PositionsOf(items, x) == {i \in 1 .. Len(items) : items[i].text = x}

\* C11: a text that is in the hit lists of k of the n (distinct) keywords
\* of a request is exactly once in the merged list, at most once in the
\* returned list, and its item reports the k keywords that hit it:
\* 'Matched k/n'.  No text without a hit is merged.
C11_OneItemPerText ==
    /\ \A x \in HitTexts :
         /\ Cardinality(PositionsOf(final_results, x)) = 1
         /\ Cardinality(PositionsOf(response, x)) <= 1
         /\ \A i \in PositionsOf(final_results, x) :
              LET explanation == final_results[i].explanation
              IN  /\ explanation.keyword_matches = KeywordsHitting(x)
                  /\ explanation.num_matches
                       = Cardinality(KeywordsHitting(x))
                  /\ explanation.total_keywords
                       = Cardinality(Range(request.keywords))
    /\ \A i \in 1 .. Len(final_results) : final_results[i].text \in HitTexts

\* a text stored twice and hit by both keywords of a request: its four
\* hits are merged into one item that reports 'Matched 2/2'
C11_Witness ==
    \E x \in HitTexts :
        /\ Cardinality({i \in 1 .. Len(index) : index[i] = x}) = 2
        /\ Cardinality(KeywordsHitting(x)) = 2
        /\ \A e \in 1 .. Len(keyword_results) :
             Cardinality(PositionsOf(keyword_results[e].results, x)) = 2
        /\ \E i \in 1 .. Len(response) :
             /\ response[i].text = x
             /\ response[i].explanation.num_matches = 2
             /\ response[i].explanation.total_keywords = 2

\* the texts and similarities of a list of result items, in order
TextsAndSimilarities(items) ==
    [i \in 1 .. Len(items) |->
        [text |-> items[i].text, similarity |-> items[i].similarity]]

\* the texts and raw scores of a list of vector-store hits, in order
TextsAndScores(hits) ==
    [i \in 1 .. Len(hits) |->
        [text |-> hits[i].text, similarity |-> hits[i].score]]

\* the hits of a list without the later hits of a text already in it
RECURSIVE FirstHitPerText(_)
FirstHitPerText(hits) ==
    IF hits = <<>> THEN <<>>
    ELSE <<Head(hits)>>
         \o SelectSeq(FirstHitPerText(Tail(hits)),
                      LAMBDA h : h.text # Head(hits).text)

\* the vector store queried directly with the first keyword of the request,
\* top_k = max_results and the threshold of the request
DirectQuery ==
    IndexerSearch(request.keywords[1], request.max_results,
                  request.threshold)

\* C12 as stated: a request with exactly one keyword returns the result
\* sequence of the direct vector-store query: same length, same texts in
\* the same order, each similarity equal to the raw score of the hit.
C12_OneKeywordIsDirectQuery ==
    Len(request.keywords) = 1 =>
        TextsAndSimilarities(response) = TextsAndScores(DirectQuery)

\* C12 amended: a request with exactly one keyword returns the hits of the
\* direct vector-store query in their order, each text once (its first
\* hit), each similarity equal to the raw score of the hit (bonus zero);
\* the two sequences are the same when the hits have distinct texts.
C12_OneKeywordIsDirectQueryPerText ==
    Len(request.keywords) = 1 =>
        /\ TextsAndSimilarities(response)
             = TextsAndScores(FirstHitPerText(DirectQuery))
        /\ \A i \in 1 .. Len(response) :
             response[i].explanation.keyword_bonus = 0

\* one keyword and a text stored twice: the direct query hits it twice, the
\* response holds it once, with the raw score of the hit
C12_Witness ==
    /\ Len(request.keywords) = 1
    /\ Len(DirectQuery) = 2
    /\ DirectQuery[1].text = DirectQuery[2].text
    /\ Len(response) = 1
    /\ response[1].text = DirectQuery[1].text
    /\ response[1].similarity = DirectQuery[1].score

\* the merged results i and j have the same base score and i is matched by
\* more keywords than j
MoreMatchesAtEqualBase(i, j) ==
    /\ final_results[i].explanation.base_score
         = final_results[j].explanation.base_score
    /\ final_results[i].explanation.num_matches
         > final_results[j].explanation.num_matches

\* the merged result at position i is among the returned results
Kept(i) == i \notin CutOff

\* C13 as stated: of two merged texts with equal base_score, the one
\* matched by more keywords is never placed after the one matched by fewer,
\* and is never truncated while the other is kept.
C13_MoreMatchesNeverAfter ==
    \A i, j \in 1 .. Len(final_results) :
        MoreMatchesAtEqualBase(i, j) =>
            /\ i < j
            /\ Kept(j) => Kept(i)

\* C13 amended: of two merged texts with equal base_score, the one matched
\* by more keywords has a similarity at least as high; when its similarity
\* is higher it is placed before the other and is not truncated while the
\* other is kept; the similarities are equal only when both are capped at
\* 1.0, and then the order of the two is not determined by the matches.
C13_MoreMatchesNeverLower ==
    \A i, j \in 1 .. Len(final_results) :
        MoreMatchesAtEqualBase(i, j) =>
            /\ final_results[i].similarity >= final_results[j].similarity
            /\ final_results[i].similarity > final_results[j].similarity
                 => /\ i < j
                    /\ Kept(j) => Kept(i)
            /\ final_results[i].similarity = final_results[j].similarity
                 => final_results[i].similarity = ScoreOne

\* two texts of base score 0.80, the one stored first matched by one
\* keyword and the other by two: the sort puts the second before the first
C13_Witness ==
    /\ Len(final_results) = 2
    /\ MoreMatchesAtEqualBase(1, 2)
    /\ final_results[1].similarity > final_results[2].similarity
    /\ final_results[1].explanation.base_score < ScoreOne
    /\ Len(index) = 2
    /\ index[1] = final_results[2].text
    /\ index[2] = final_results[1].text

\* C14: every returned text is stored in the index and has a base_score
\* that is the score of the text for a keyword of the request and is at
\* least the threshold of the request; the keyword bonus admits no text
\* whose scores are all below the threshold.
C14_ThresholdSound ==
    \A i \in 1 .. Len(response) :
        /\ response[i].explanation.base_score >= request.threshold
        /\ \E p \in 1 .. Len(index) : index[p] = response[i].text
        /\ \E e \in 1 .. Len(request.keywords) :
             Score(request.keywords[e], response[i].text)
               = response[i].explanation.base_score

\* a stored text below the threshold for both keywords is left out, though
\* with the bonus of two matches it would have reached the threshold, and
\* a text above the threshold for both is returned with the bonus
C14_Witness ==
    /\ Len(request.keywords) = 2
    /\ \E p \in 1 .. Len(index) :
         /\ \A e \in 1 .. 2 :
              Score(request.keywords[e], index[p]) < request.threshold
         /\ Score(request.keywords[1], index[p]) + KEYWORD_BONUS
              >= request.threshold
         /\ PositionsOf(final_results, index[p]) = {}
    /\ \E i \in 1 .. Len(response) :
         /\ response[i].explanation.keyword_bonus > 0
         /\ response[i].explanation.base_score >= request.threshold

\* the lexical order of two texts: the texts are numbered in that order
LexicallyBefore(x, y) == x < y

\* C15: the result list is sorted by similarity, descending, and results
\* of equal similarity are in lexical order of their text; of the merged
\* results of equal similarity, the lexically first survive truncation.
C15_SortedWithLexicalTieBreak ==
    /\ \A i, j \in 1 .. Len(response) :
         i < j =>
            /\ response[i].similarity >= response[j].similarity
            /\ response[i].similarity = response[j].similarity
                 => LexicallyBefore(response[i].text, response[j].text)
    /\ \A i \in CutOff :
         \A j \in 1 .. Len(response) :
            final_results[i].similarity = response[j].similarity
              => LexicallyBefore(response[j].text, final_results[i].text)

\* the orders in which the elements of s can be listed
Reorderings(s) ==
    {Permuted(s, perm) :
        perm \in {f \in [1 .. Len(s) -> 1 .. Len(s)] :
                    \A i, j \in 1 .. Len(s) : i # j => f[i] # f[j]}}

\* C16: the merged list does not depend on the order of the keywords:
\* against the same index, a request with the keywords of the served
\* request in any other order, and the same threshold and max_results, is
\* answered with the same sequence of texts and similarities.
C16_KeywordOrderIrrelevant ==
    \A keywords \in Reorderings(request.keywords) :
        TextsAndSimilarities(ResultsFor([request EXCEPT !.keywords = keywords]))
          = TextsAndSimilarities(response)

WellFormed(a) ==
    /\ a.keywords # <<>>
    /\ a.threshold \in 0 .. 100
    /\ a.max_results >= 1

\* C18: constructing a SearchRequest succeeds exactly when the keywords are
\* non-empty, the threshold is in [0, 1] and max_results is at least 1:
\* a call that was served has such a request, and a construction that
\* raised ValueError had arguments that break one of the three, left no
\* request and issued no query.
C18_ConstructionValidates ==
    /\ outcome \in {"response", "HTTP 500"} =>
         /\ request = args
         /\ WellFormed(request)
    /\ outcome = "ValueError" =>
         /\ ~WellFormed(args)
         /\ request = NoRequest
         /\ keyword_results = <<>>
         /\ final_results = <<>>
         /\ response = <<>>

\* rejected for max_results = 0 alone, over a filled index that has hits
\* for the keywords
C18_Witness ==
    /\ outcome = "ValueError"
    /\ args.keywords # <<>>
    /\ args.threshold = 0
    /\ args.max_results = 0
    /\ index # <<>>
    /\ request = NoRequest
    /\ keyword_results = <<>>

\* the keywords of the request whose vector-store query works
WorkingKeywords == Range(request.keywords) \ store_down

\* the texts the vector store holds for a working keyword of the request
TextsOfWorkingKeywords ==
    UNION {Range([j \in 1 .. Len(QdrantSearch(k, request.max_results,
                                               request.threshold)) |->
                    QdrantSearch(k, request.max_results,
                                 request.threshold)[j].text]) :
             k \in WorkingKeywords}

\* C19: when the embeddings of a request work, search returns a response,
\* whichever vector-store queries fail: a keyword whose query fails has no
\* hits, the merged texts are the texts hit by the remaining keywords, and
\* when no keyword has a hit the response is empty.
C19_StoreFailureIsZeroHits ==
    (request # NoRequest /\ Range(request.keywords) \cap embed_down = {}) =>
        /\ outcome = "response"
        /\ \A e \in 1 .. Len(keyword_results) :
             keyword_results[e].keyword \in store_down
               => keyword_results[e].results = <<>>
        /\ {final_results[i].text : i \in 1 .. Len(final_results)}
             = TextsOfWorkingKeywords
        /\ \A i \in 1 .. Len(final_results) :
             final_results[i].explanation.keyword_matches
               \subseteq WorkingKeywords
        /\ TextsOfWorkingKeywords = {} => response = <<>>
        /\ TextsOfWorkingKeywords # {} => response # <<>>

\* the query of the first keyword fails and the second keyword has hits:
\* the response holds them, each matched by one keyword of two
C19_Witness ==
    /\ outcome = "response"
    /\ Len(request.keywords) = 2
    /\ request.keywords[1] \in store_down
    /\ request.keywords[2] \notin store_down
    /\ Len(keyword_results) = 2
    /\ keyword_results[1].results = <<>>
    /\ Len(response) = 2
    /\ \A i \in 1 .. 2 :
         /\ response[i].explanation.num_matches = 1
         /\ response[i].explanation.total_keywords = 2
         /\ response[i].explanation.keyword_matches = {request.keywords[2]}

\* C20: when the embedding of a keyword of the request fails, the whole
\* request fails: the /search endpoint answers HTTP 500 and no response,
\* not even one made of the hits gathered before the failure, is returned.
C20_EmbeddingFailureFailsRequest ==
    (request # NoRequest /\ Range(request.keywords) \cap embed_down # {}) =>
        /\ outcome = "HTTP 500"
        /\ final_results = <<>>
        /\ response = <<>>

\* the embedding of the second keyword fails after the first keyword has
\* had its hits: the request fails and the hits are dropped
C20_Witness ==
    /\ outcome = "HTTP 500"
    /\ Len(request.keywords) = 2
    /\ request.keywords[1] \notin embed_down
    /\ request.keywords[2] \in embed_down
    /\ Len(keyword_results) = 1
    /\ keyword_results[1].keyword = request.keywords[1]
    /\ keyword_results[1].results # <<>>
    /\ response = <<>>

\* C21: a search that has been called eventually returns a response, also
\* when the vector-store query of one of its keywords never completes.
C21_SearchAlwaysResponds ==
    (outcome = "pending") ~> (outcome = "response")

\* C22: process_text returns None for every raw text whose cleaned form is
\* shorter than min_text_length, and for every other raw text a record
\* whose text is the cleaned form.
C22_RejectsShortCleanedText ==
    call.op = "process_text" =>
        IF Len(clean_text(call.input)) < min_text_length
          THEN call.output = <<>>
          ELSE /\ Len(call.output) = 1
               /\ call.output[1].text = clean_text(call.input)

\* the records process_text returns for the texts of raw, in order
RECURSIVE AcceptedRecords(_)
AcceptedRecords(raw) ==
    IF raw = <<>> THEN <<>>
    ELSE process_text(Head(raw), TRUE) \o AcceptedRecords(Tail(raw))

\* C23: for every batch_size, batch_process returns in input order exactly
\* the records that process_text returns for the accepted inputs and
\* nothing for the rejected ones; each record carries the embedding of its
\* own text; an empty batch gives an empty list.
C23_BatchIsProcessTextOfEach ==
    call.op = "batch_process" =>
        /\ call.output = AcceptedRecords(call.input)
        /\ \A j \in 1 .. Len(call.output) :
             call.output[j].embedding = Embed(call.output[j].text)
        /\ call.input = <<>> => call.output = <<>>

\* a batch of a rejected text followed by an accepted one, processed as
\* one batch: one record, with the cleaned text and its own embedding
C23_Witness ==
    /\ call.op = "batch_process"
    /\ call.batch_size = 2
    /\ Len(call.input) = 2
    /\ process_text(call.input[1], TRUE) = <<>>
    /\ process_text(call.input[2], TRUE) # <<>>
    /\ Len(call.output) = 1
    /\ call.output[1].text = clean_text(call.input[2])
    /\ call.output[1].text # call.input[2]
    /\ call.output[1].embedding = Embed(call.output[1].text)

\* the number of distinct keywords of the request
DistinctKeywords == Cardinality(Range(request.keywords))

\* the request with its first keyword given once
OnceOnly == [request EXCEPT !.keywords = <<request.keywords[1]>>]

\* C29: a keyword given more than once counts as one keyword: it has one
\* hit list, the total in every explanation is the number of distinct
\* keywords, and a request that repeats one keyword returns what the
\* request with that keyword once returns, without bonus.
C29_RepeatedKeywordCountsOnce ==
    outcome = "response" =>
        /\ Len(keyword_results) = DistinctKeywords
        /\ \A i \in 1 .. Len(response) :
             response[i].explanation.total_keywords = DistinctKeywords
        /\ DistinctKeywords = 1 =>
             /\ response = ResultsFor(OnceOnly)
             /\ \A i \in 1 .. Len(response) :
                  response[i].explanation.keyword_bonus = 0

\* the same keyword given twice, with a hit: one hit list, one keyword in
\* the explanation, no bonus
C29_Witness ==
    /\ outcome = "response"
    /\ Len(request.keywords) = 2
    /\ request.keywords[1] = request.keywords[2]
    /\ Len(keyword_results) = 1
    /\ Len(keyword_results[1].results) >= 1
    /\ Len(response) >= 1
    /\ response[1].explanation.total_keywords = 1
    /\ response[1].explanation.num_matches = 1
    /\ response[1].explanation.keyword_bonus = 0

\* C26: every record load_or_process_data returns from the cache has an
\* embedding whose length is the dimension of the index.
C26_CachedEmbeddingsHaveIndexDimension ==
    (lpc = "returned" /\ lobserved = "ok" /\ lprocessed = <<>>) =>
        \A i \in 1 .. Len(lresult) : EmbeddingLength(lresult[i]) = dimension

\* the texts of the records the pipeline's batch operation returns for the
\* raw lines, all in one batch
PipelineTexts ==
    LET records == batch_process(RawLines, NumRawLines)
    IN  [j \in 1 .. Len(records) |-> records[j].text]

\* C27: what the reprocess path returns is the result of the pipeline's
\* batch operation over the raw lines: no record for a short or empty
\* line, and the cleaned line as the text of every record.
C27_ReprocessIsPipelineBatch ==
    (lpc = "returned" /\ lprocessed # <<>>) =>
        [j \in 1 .. Len(lresult) |-> RecordText(lresult[j])] = PipelineTexts

\* C28 (what the call answers and adds): add_patents with n patents
\* answers status "success" with processed = n and has added n texts to
\* the index.
C28_AddPatentsAddsAll ==
    added # NotAdded =>
        /\ added.status = "success"
        /\ added.processed = Len(submission.patents)
        /\ Len(index) = submission.ntotal + Len(submission.patents)

\* the indexer has not been given records since it was saved
SavedAsItIs == snapshot.status = "saved" /\ snapshot.metadata = metadata

WellFormedEntries ==
    {i \in 1 .. Len(snapshot.vectors) : snapshot.vectors[i].vector = "list"}

\* C25: loading a snapshot skips, without failing, every entry whose
\* vector is not a list or has another length than the declared dimension,
\* and inserts every other entry: the collection then holds exactly the
\* well-formed entries.
C25_LoadSkipsMalformedEntries ==
    [][(loaded' # loaded /\ snapshot.status # "absent") =>
          /\ loaded'.status = "loaded"
          /\ Len(loaded'.points) = Cardinality(WellFormedEntries)
          /\ \A i \in WellFormedEntries :
                \E j \in 1 .. Len(loaded'.points) :
                    loaded'.points[j] = snapshot.vectors[i].text
          /\ snapshot.status = "foreign" =>
                \A i \in (1 .. Len(snapshot.vectors)) \ WellFormedEntries :
                    \A j \in 1 .. Len(loaded'.points) :
                        loaded'.points[j] # snapshot.vectors[i].text
      ]_vars

\* a snapshot of one entry with a vector of another length and one
\* well-formed entry was loaded: the collection holds the second only
C25_Witness ==
    /\ loaded.status = "loaded"
    /\ snapshot.status = "foreign"
    /\ Len(snapshot.vectors) = 2
    /\ snapshot.vectors[1].vector = "other_length"
    /\ snapshot.vectors[2].vector = "list"
    /\ loaded.points = <<snapshot.vectors[2].text>>

\* C30: in every state reached by add_texts calls and by loading a
\* snapshot, the number of entries of indexer.metadata equals ntotal, for
\* the indexer that was given the records and for the one that was loaded.
C30_MetadataCountIsNtotal ==
    /\ metadata = Len(index)
    /\ loaded.status = "loaded" => loaded.metadata = Len(loaded.points)

====
